---- MODULE Spec2Model ----
(***************************************************************************)
(* Canvas server (src/server/index.js) and the client canvas page          *)
(* (src/client/src/pages/Dashboard.tsx, component Canvas).                  *)
(*                                                                         *)
(* Four specifications share this module:                                  *)
(*   SpecAuth     sign-up, sign-in, the guard and the clock                 *)
(*   SpecSession  sign-out and the guard for two signed-up users            *)
(*   Spec         the canvas routes and /api/auth/me for two signed-up users*)
(*   SpecSync     the auto-save state machine of one open canvas page       *)
(***************************************************************************)
EXTENDS Integers, Sequences, FiniteSets, TLC

VARIABLES
    authUsers,        \* supabase.auth: set of [id, email, password]
    user_profiles,    \* table user_profiles: set of user ids having a row
    tldraw_drawings,  \* table tldraw_drawings: id -> [user_id, drawing_name, snapshot]
    nextDrawingId,    \* ids handed out so far + 1 (ids are never reused)
    issued,           \* every token jwt.sign has produced
    clock,            \* server time, in days
    pendingPatch,     \* PATCH handlers suspended between their two store queries
    res,              \* the request just answered and its response
    signedOut         \* history, for the properties: the issued tokens that a
                      \* sign-out request has carried

serverVars == <<authUsers, user_profiles, tldraw_drawings, nextDrawingId,
                issued, clock, pendingPatch, res, signedOut>>

VARIABLES
    phase,            \* "loading" | "mounted" (handleMount has run) | "unmounted"
    saveStatus,       \* useState 'saved' | 'saving' | 'unsaved'
    saveTimeoutRef,   \* saveTimeoutRef.current: a timeout id, NoTimer for null
    timeouts,         \* the window's scheduled timeouts: set of [id, left]
    editorSnapshot,   \* editor.getSnapshot(): the in-memory document (edit count)
    inflight,         \* canvasApi.update calls awaiting their response:
                      \* [id, payload, by ("timer" | "manual"), arrived]
    nextWriteId,      \* writes started so far + 1
    storeSnapshot,    \* the snapshot column of this canvas on the server
    errorMsg,         \* useState error
    burst,            \* history of the latest burst of edits, for the properties:
                      \* n edits, the snapshot after the last, the time since it,
                      \* the writes started since the burst began
    ev                \* history, for the properties: what the last step did,
                      \* the snapshot of the latest write started, and whether
                      \* a write has failed with no edit or manual save since

clientVars == <<phase, saveStatus, saveTimeoutRef, timeouts, editorSnapshot,
                inflight, nextWriteId, storeSnapshot, errorMsg, burst, ev>>

vars == <<serverVars, clientVars>>

-----------------------------------------------------------------------------
(* Bounds *)

MaxClock == 8
MaxIssueTime == 1
MaxTokens == 2
MaxDrawings == 2
MaxPending == 1
MaxEdits == 3
MaxWrites == 3

(* Program constants *)

SevenDays == 7
MinPasswordLength == 6
Debounce == 3

-----------------------------------------------------------------------------
(* Values *)

Emails == {"", "a@x", "b@x"}
Passwords == {"", "12345", "123456"}

\* A token string as the server sees it.  sig: "valid" signed with JWT_SECRET,
\* "forged" signed with another key, "malformed" not a JWT, "empty" the string
\* '', "undefined" no value at all.
TokenValue(u, e, i, x, s) == [userId |-> u, email |-> e, iat |-> i, exp |-> x, sig |-> s]
Undefined == TokenValue(0, "", 0, 0, "undefined")
EmptyString == TokenValue(0, "", 0, 0, "empty")
Malformed == TokenValue(0, "", 0, 0, "malformed")
BearerWord == TokenValue(0, "", 0, 0, "Bearer")

NoUser == [userId |-> 0, email |-> ""]

\* Optional request fields: given = FALSE is JavaScript's undefined.
Some(v) == [given |-> TRUE, val |-> v]
NoSnapshot == [given |-> FALSE, val |-> ""]
NoName == [given |-> FALSE, val |-> <<>>]

Snapshots == {"{}", "S1"}
Names == {<<>>, <<" ">>, <<" ", "A">>}

-----------------------------------------------------------------------------
(* Pure functions of the server *)

\* String.prototype.trim
RECURSIVE TrimLeft(_)
TrimLeft(s) ==
    IF s # <<>> /\ Head(s) = " " THEN TrimLeft(Tail(s)) ELSE s

RECURSIVE TrimRight(_)
TrimRight(s) ==
    IF s # <<>> /\ s[Len(s)] = " " THEN TrimRight(SubSeq(s, 1, Len(s) - 1)) ELSE s

\* Mutant of trim: the string is returned as it is.
trimNothing(s) == s

trim(s) == TrimRight(TrimLeft(s))

\* Mutant of generateToken: the token lives one day longer.
generateTokenEightDays(user, now) ==
    TokenValue(user.id, user.email, now, now + SevenDays + 1, "valid")

\* Mutant of generateToken: the userId claim is not the identity's id.
generateTokenOtherUser(user, now) ==
    TokenValue(user.id + 1, user.email, now, now + SevenDays, "valid")

\* jwt.sign({userId, email}, JWT_SECRET, {expiresIn: '7d'})
generateToken(user, now) ==
    TokenValue(user.id, user.email, now, now + SevenDays, "valid")

\* Mutant of jwtVerify: a token that a sign-out request has carried is refused.
jwtVerifyUnlessSignedOut(token, now) ==
    token.sig = "valid" /\ now < token.exp /\ token \notin signedOut

\* Mutant of jwtVerify: the token is decoded without checking its signature.
jwtDecodeOnly(token, now) ==
    token.sig \in {"valid", "forged"} /\ now < token.exp

\* jwt.verify(token, JWT_SECRET): throws on a bad signature, a malformed token
\* and when now >= exp.
jwtVerify(token, now) ==
    token.sig = "valid" /\ now < token.exp

\* Mutant of PasswordTooShort: the comparison is off by one.
PasswordTooShortOffByOne(password) == Len(password) < MinPasswordLength - 1

\* password.length < 6
PasswordTooShort(password) == Len(password) < MinPasswordLength

\* JavaScript truthiness of a string-or-undefined value
Truthy(v) == v.sig \notin {"undefined", "empty"}

\* req.headers.authorization?.split(' ')[1]
HeaderToken(header) ==
    IF ~header.present THEN Undefined
    ELSE IF Len(header.words) >= 2 THEN header.words[2]
    ELSE Undefined

\* Mutant of LocateToken: the Authorization header is looked at first.
LocateTokenHeaderFirst(cookie, header) ==
    IF Truthy(HeaderToken(header)) THEN HeaderToken(header) ELSE cookie

\* const token = req.cookies.token || req.headers.authorization?.split(' ')[1]
LocateToken(cookie, header) ==
    IF Truthy(cookie) THEN cookie ELSE HeaderToken(header)

\* verifyToken: the status it answers (0 = next() was called) and req.user
GuardStatus(cookie, header, now) ==
    LET token == LocateToken(cookie, header) IN
    IF ~Truthy(token) THEN 401
    ELSE IF jwtVerify(token, now) THEN 0
    ELSE 401

GuardUser(cookie, header) ==
    LET token == LocateToken(cookie, header) IN
    [userId |-> token.userId, email |-> token.email]

-----------------------------------------------------------------------------
(* Requests *)

\* The same claims signed with another key.
ForgedTokens == {[t EXCEPT !.sig = "forged"] : t \in issued}

PresentableTokens == issued \cup ForgedTokens \cup {Malformed}

Cookies == PresentableTokens \cup {Undefined, EmptyString}

Bearer(t) == [present |-> TRUE, words |-> <<BearerWord, t>>]

Headers ==
    {[present |-> FALSE, words |-> <<>>]}
    \cup {Bearer(t) : t \in issued \cup ForgedTokens}
    \cup {[present |-> TRUE, words |-> <<t>>] : t \in issued}

NoHeader == [present |-> FALSE, words |-> <<>>]

\* What the client of src/client/src/config/api.ts sends (the session cookie
\* together with the same token in the Authorization header, or nothing when
\* signed out), and a forged token in the header.
Credentials ==
    {<<Undefined, NoHeader>>}
    \cup {<<t, Bearer(t)>> : t \in issued}
    \cup {<<Undefined, Bearer(t)>> : t \in ForgedTokens}

\* The record of one answered request.  empty: the body of a PATCH that was
\* turned away after the guard held neither snapshot nor drawing_name.
\* queries: for each query the request sent to tldraw_drawings by id, the
\* columns its .eq() filters name.  issuedToken: the token of the response
\* body; setCookie: the token handed to res.cookie('token', ...).
Response(op, status, token, user) ==
    [op |-> op, status |-> status, token |-> token, user |-> user,
     id |-> 0, snapshot |-> NoSnapshot, drawing_name |-> NoName, body |-> {},
     empty |-> FALSE, queries |-> {},
     cookie |-> Undefined, header |-> NoHeader,
     email |-> "", password |-> "", issuedToken |-> Undefined,
     setCookie |-> Undefined, profileFailed |-> FALSE]

Row(id) == [id |-> id, user_id |-> tldraw_drawings[id].user_id,
            drawing_name |-> tldraw_drawings[id].drawing_name,
            snapshot |-> tldraw_drawings[id].snapshot]

RowAfter(id, r) == [id |-> id, user_id |-> r.user_id,
                    drawing_name |-> r.drawing_name, snapshot |-> r.snapshot]

UserByEmail(e) == {u \in authUsers : u.email = e}

\* Mutant of DrawingsOf: the join is not restricted to the profile's rows.
DrawingsOfAnyone(userId) == DOMAIN tldraw_drawings

\* drawings:tldraw_drawings(*) of the profile row: the rows joined to the user
DrawingsOf(userId) ==
    {d \in DOMAIN tldraw_drawings : tldraw_drawings[d].user_id = userId}

-----------------------------------------------------------------------------
(* Credential routes *)

\* POST /api/auth/signup
Signup(email, password, profileFails) ==
    /\ UNCHANGED <<tldraw_drawings, nextDrawingId, clock, pendingPatch, signedOut, clientVars>>
    /\ LET req == [Response("signup", 400, Undefined, NoUser) EXCEPT
                      !.email = email, !.password = password]
       IN
       IF email = "" \/ password = "" THEN
           /\ res' = req
           /\ UNCHANGED <<authUsers, user_profiles, issued>>
       ELSE IF PasswordTooShort(password) THEN
           /\ res' = req
           /\ UNCHANGED <<authUsers, user_profiles, issued>>
       ELSE IF UserByEmail(email) # {} THEN
           \* supabase.auth.admin.createUser answers an error
           /\ res' = req
           /\ UNCHANGED <<authUsers, user_profiles, issued>>
       ELSE
           LET user == [id |-> Cardinality(authUsers) + 1, email |-> email,
                        password |-> password]
               token == generateToken(user, clock)
           IN
           /\ clock <= MaxIssueTime
           /\ Cardinality(issued \cup {token}) <= MaxTokens
           /\ authUsers' = authUsers \cup {user}
           /\ user_profiles' = IF profileFails THEN user_profiles
                               ELSE user_profiles \cup {user.id}
           /\ issued' = issued \cup {token}
           /\ res' = [req EXCEPT !.status = 200,
                                 !.user = [userId |-> user.id, email |-> user.email],
                                 !.issuedToken = token,
                                 !.setCookie = token,
                                 !.profileFailed = profileFails]

\* POST /api/auth/signin
Signin(email, password, repairFails) ==
    /\ UNCHANGED <<authUsers, tldraw_drawings, nextDrawingId, clock, pendingPatch,
                   signedOut, clientVars>>
    /\ LET req == [Response("signin", 400, Undefined, NoUser) EXCEPT
                      !.email = email, !.password = password]
           found == {u \in authUsers : u.email = email /\ u.password = password}
       IN
       IF email = "" \/ password = "" THEN
           /\ res' = req
           /\ UNCHANGED <<user_profiles, issued>>
       ELSE IF found = {} THEN
           \* supabase.auth.signInWithPassword answers an error
           /\ res' = [req EXCEPT !.status = 401]
           /\ UNCHANGED <<user_profiles, issued>>
       ELSE
           LET user == CHOOSE u \in found : TRUE
               token == generateToken(user, clock)
           IN
           /\ clock <= MaxIssueTime
           /\ Cardinality(issued \cup {token}) <= MaxTokens
           /\ user_profiles' = IF user.id \in user_profiles \/ repairFails
                               THEN user_profiles
                               ELSE user_profiles \cup {user.id}
           /\ issued' = issued \cup {token}
           /\ res' = [req EXCEPT !.status = 200,
                                 !.user = [userId |-> user.id, email |-> user.email],
                                 !.issuedToken = token,
                                 !.setCookie = token,
                                 !.profileFailed =
                                     (user.id \notin user_profiles /\ repairFails)]

\* POST /api/auth/signout: the handler reads nothing of the request, clears the
\* cookie and answers; the route is not behind the guard.
Signout(cookie, header) ==
    /\ res' = Response("signout", 200, Undefined, NoUser)
    /\ signedOut' = signedOut \cup ({LocateToken(cookie, header)} \cap issued)
    /\ UNCHANGED <<authUsers, user_profiles, tldraw_drawings, nextDrawingId, issued,
                   clock, pendingPatch, clientVars>>

\* GET /api/auth/me
Me(cookie, header) ==
    /\ UNCHANGED <<authUsers, user_profiles, tldraw_drawings, nextDrawingId, issued,
                   clock, pendingPatch, signedOut, clientVars>>
    /\ LET token == LocateToken(cookie, header) IN
       IF GuardStatus(cookie, header, clock) # 0 THEN
           res' = Response("me", 401, token, NoUser)
       ELSE
           LET user == GuardUser(cookie, header)
               userId == user.userId
           IN
           IF userId \notin user_profiles THEN
               res' = Response("me", 404, token, user)
           ELSE
               res' = [Response("me", 200, token, user) EXCEPT
                          !.body = {Row(d) : d \in DrawingsOf(userId)}]

\* GET /api/auth/verify
Verify(cookie, header) ==
    /\ UNCHANGED <<authUsers, user_profiles, tldraw_drawings, nextDrawingId, issued,
                   clock, pendingPatch, signedOut, clientVars>>
    /\ LET token == LocateToken(cookie, header)
           req == [Response("verify", 401, token, NoUser) EXCEPT
                      !.cookie = cookie, !.header = header]
       IN
       IF GuardStatus(cookie, header, clock) # 0 THEN
           res' = req
       ELSE
           res' = [req EXCEPT !.status = 200, !.user = GuardUser(cookie, header)]

\* Time passes on the server.
Tick ==
    /\ clock < MaxClock
    /\ clock' = clock + 1
    /\ UNCHANGED <<authUsers, user_profiles, tldraw_drawings, nextDrawingId, issued,
                   pendingPatch, res, signedOut, clientVars>>

-----------------------------------------------------------------------------
(* Canvas routes *)

DrawingIds == 1..MaxDrawings

\* The columns filtered on by .eq('id', canvasId).eq('user_id', userId) and by
\* .eq('id', canvasId) alone
OwnerFilter == {"id", "user_id"}
IdFilter == {"id"}

\* .eq('id', canvasId) alone
RowsById(canvasId) ==
    {d \in DOMAIN tldraw_drawings : d = canvasId}

\* Mutant of OwnedRows: the user_id filter is left out of the query.
OwnedRowsByIdOnly(canvasId, userId) ==
    {d \in DOMAIN tldraw_drawings : d = canvasId}

\* .eq('id', canvasId).eq('user_id', userId): the rows the query addresses
OwnedRows(canvasId, userId) ==
    {d \in DOMAIN tldraw_drawings :
        d = canvasId /\ tldraw_drawings[d].user_id = userId}

\* Mutant of ApplyUpdate: every column is written, given or not.
ApplyUpdateAllFields(row, updateData) ==
    [user_id |-> row.user_id,
     drawing_name |-> updateData.drawing_name.val,
     snapshot |-> IF updateData.snapshot.given
                  THEN updateData.snapshot.val
                  ELSE "{}"]

\* Mutant of ApplyUpdate: the snapshot is not copied into the update.
ApplyUpdateWithoutSnapshot(row, updateData) ==
    [user_id |-> row.user_id,
     drawing_name |-> IF updateData.drawing_name.given
                      THEN updateData.drawing_name.val
                      ELSE row.drawing_name,
     snapshot |-> row.snapshot]

\* updateData applied to a row: only the fields it holds are written
ApplyUpdate(row, updateData) ==
    [user_id |-> row.user_id,
     drawing_name |-> IF updateData.drawing_name.given
                      THEN updateData.drawing_name.val
                      ELSE row.drawing_name,
     snapshot |-> IF updateData.snapshot.given
                  THEN updateData.snapshot.val
                  ELSE row.snapshot]

\* GET /api/canvases/:id
GetCanvas(cookie, header, canvasId) ==
    /\ UNCHANGED <<authUsers, user_profiles, tldraw_drawings, nextDrawingId, issued,
                   clock, pendingPatch, signedOut, clientVars>>
    /\ LET token == LocateToken(cookie, header) IN
       IF GuardStatus(cookie, header, clock) # 0 THEN
           res' = [Response("get", 401, token, NoUser) EXCEPT !.id = canvasId]
       ELSE
           LET user == GuardUser(cookie, header)
               rows == OwnedRows(canvasId, user.userId)
           IN
           IF rows = {} THEN
               res' = [Response("get", 404, token, user) EXCEPT
                          !.id = canvasId, !.queries = {OwnerFilter}]
           ELSE
               res' = [Response("get", 200, token, user) EXCEPT
                          !.id = canvasId, !.queries = {OwnerFilter},
                          !.body = {Row(d) : d \in rows}]

\* POST /api/canvases
CreateCanvas(cookie, header, drawing_name) ==
    /\ UNCHANGED <<authUsers, user_profiles, issued, clock, pendingPatch, signedOut, clientVars>>
    /\ LET token == LocateToken(cookie, header) IN
       IF GuardStatus(cookie, header, clock) # 0 THEN
           /\ res' = Response("create", 401, token, NoUser)
           /\ UNCHANGED <<tldraw_drawings, nextDrawingId>>
       ELSE
           LET user == GuardUser(cookie, header) IN
           IF ~drawing_name.given \/ drawing_name.val = <<>>
              \/ trim(drawing_name.val) = <<>> THEN
               /\ res' = [Response("create", 400, token, user) EXCEPT
                             !.drawing_name = drawing_name]
               /\ UNCHANGED <<tldraw_drawings, nextDrawingId>>
           ELSE
               LET row == [user_id |-> user.userId,
                           drawing_name |-> trim(drawing_name.val),
                           snapshot |-> "{}"]
               IN
               /\ nextDrawingId <= MaxDrawings
               /\ tldraw_drawings' =
                      [d \in DOMAIN tldraw_drawings \cup {nextDrawingId} |->
                          IF d = nextDrawingId THEN row ELSE tldraw_drawings[d]]
               /\ nextDrawingId' = nextDrawingId + 1
               /\ res' = [Response("create", 201, token, user) EXCEPT
                             !.id = nextDrawingId,
                             !.drawing_name = drawing_name,
                             !.body = {RowAfter(nextDrawingId, row)}]

\* Object.keys(updateData).length === 0
NoFields(updateData) ==
    ~updateData.snapshot.given /\ ~updateData.drawing_name.given

\* updateData built from the request body: snapshot as given, drawing_name
\* trimmed
UpdateData(body) ==
    [snapshot |-> body.snapshot,
     drawing_name |-> IF body.drawing_name.given
                      THEN Some(trim(body.drawing_name.val))
                      ELSE NoName]

\* Mutant of PatchCheck: the fields are looked at before the ownership check.
PatchCheckFieldsFirst(cookie, header, canvasId, bodies) ==
    /\ UNCHANGED <<authUsers, user_profiles, tldraw_drawings, nextDrawingId, issued,
                   clock, signedOut, clientVars>>
    /\ LET token == LocateToken(cookie, header)
           req(status, user) ==
               [Response("patch", status, token, user) EXCEPT
                   !.id = canvasId,
                   !.queries = IF status = 401 THEN {} ELSE {OwnerFilter}]
       IN
       IF GuardStatus(cookie, header, clock) # 0 THEN
           /\ res' = req(401, NoUser)
           /\ UNCHANGED pendingPatch
       ELSE
           LET user == GuardUser(cookie, header)
               existing == OwnedRows(canvasId, user.userId)
           IN
           \E body \in bodies :
               IF NoFields(UpdateData(body)) THEN
                   /\ res' = [req(400, user) EXCEPT !.empty = TRUE]
                   /\ UNCHANGED pendingPatch
               ELSE IF existing = {} THEN
                   /\ res' = req(404, user)
                   /\ UNCHANGED pendingPatch
               ELSE
                   /\ Cardinality(pendingPatch) < MaxPending
                   /\ pendingPatch' = pendingPatch \cup
                          {[req |-> [req(0, user) EXCEPT
                                        !.snapshot = UpdateData(body).snapshot,
                                        !.drawing_name = UpdateData(body).drawing_name]]}
                   /\ UNCHANGED res

\* PATCH /api/canvases/:id, up to the point where the update query is sent:
\* the ownership check, the 404 and 400 answers, and updateData.  The handler
\* looks at the body's fields only after the ownership check has passed;
\* `bodies` is the set the request body {snapshot, drawing_name} is drawn from.
PatchCheck(cookie, header, canvasId, bodies) ==
    /\ UNCHANGED <<authUsers, user_profiles, tldraw_drawings, nextDrawingId, issued,
                   clock, signedOut, clientVars>>
    /\ LET token == LocateToken(cookie, header)
           req(status, user) ==
               [Response("patch", status, token, user) EXCEPT
                   !.id = canvasId,
                   !.queries = IF status = 401 THEN {} ELSE {OwnerFilter}]
       IN
       IF GuardStatus(cookie, header, clock) # 0 THEN
           /\ res' = req(401, NoUser)
           /\ UNCHANGED pendingPatch
       ELSE
           LET user == GuardUser(cookie, header)
               existing == OwnedRows(canvasId, user.userId)
           IN
           IF existing = {} THEN
               /\ \E empty \in {NoFields(UpdateData(body)) : body \in bodies} :
                      res' = [req(404, user) EXCEPT !.empty = empty]
               /\ UNCHANGED pendingPatch
           ELSE
               \E body \in bodies :
                   LET updateData == UpdateData(body) IN
                   IF NoFields(updateData) THEN
                       /\ res' = [req(400, user) EXCEPT !.empty = TRUE]
                       /\ UNCHANGED pendingPatch
                   ELSE
                       /\ Cardinality(pendingPatch) < MaxPending
                       /\ pendingPatch' = pendingPatch \cup
                              {[req |-> [req(0, user) EXCEPT
                                            !.snapshot = updateData.snapshot,
                                            !.drawing_name = updateData.drawing_name]]}
                       /\ UNCHANGED res

\* PATCH /api/canvases/:id, the update query and the answer
PatchWrite(p) ==
    /\ UNCHANGED <<authUsers, user_profiles, nextDrawingId, issued, clock, signedOut, clientVars>>
    /\ pendingPatch' = pendingPatch \ {p}
    /\ LET rows == RowsById(p.req.id)
           updated(d) == ApplyUpdate(tldraw_drawings[d], p.req)
       IN
       IF rows = {} THEN
           \* .single() on no row answers an error
           /\ res' = [p.req EXCEPT !.status = 500,
                                   !.queries = @ \cup {IdFilter}]
           /\ UNCHANGED tldraw_drawings
       ELSE
           /\ tldraw_drawings' =
                  [d \in DOMAIN tldraw_drawings |->
                      IF d \in rows THEN updated(d) ELSE tldraw_drawings[d]]
           /\ res' = [p.req EXCEPT !.status = 200,
                                   !.queries = @ \cup {IdFilter},
                                   !.body = {RowAfter(d, updated(d)) : d \in rows}]

\* Mutant of DeleteCanvas: success is answered but the row is left in the table.
DeleteCanvasKeepsRow(cookie, header, canvasId) ==
    /\ UNCHANGED <<authUsers, user_profiles, tldraw_drawings, nextDrawingId, issued,
                   clock, pendingPatch, signedOut, clientVars>>
    /\ LET token == LocateToken(cookie, header) IN
       IF GuardStatus(cookie, header, clock) # 0 THEN
           res' = [Response("delete", 401, token, NoUser) EXCEPT !.id = canvasId]
       ELSE
           res' = [Response("delete", 200, token, GuardUser(cookie, header))
                      EXCEPT !.id = canvasId]

\* Mutant of DeleteCanvas: a delete that matched no row is answered NotFound.
DeleteCanvasNotFound(cookie, header, canvasId) ==
    /\ UNCHANGED <<authUsers, user_profiles, nextDrawingId, issued, clock,
                   pendingPatch, signedOut, clientVars>>
    /\ LET token == LocateToken(cookie, header) IN
       IF GuardStatus(cookie, header, clock) # 0 THEN
           /\ res' = [Response("delete", 401, token, NoUser) EXCEPT !.id = canvasId]
           /\ UNCHANGED tldraw_drawings
       ELSE
           LET user == GuardUser(cookie, header)
               rows == OwnedRows(canvasId, user.userId)
           IN
           /\ tldraw_drawings' =
                  [d \in DOMAIN tldraw_drawings \ rows |-> tldraw_drawings[d]]
           /\ res' = [Response("delete", IF rows = {} THEN 404 ELSE 200, token, user)
                         EXCEPT !.id = canvasId]

\* DELETE /api/canvases/:id
DeleteCanvas(cookie, header, canvasId) ==
    /\ UNCHANGED <<authUsers, user_profiles, nextDrawingId, issued, clock,
                   pendingPatch, signedOut, clientVars>>
    /\ LET token == LocateToken(cookie, header) IN
       IF GuardStatus(cookie, header, clock) # 0 THEN
           /\ res' = [Response("delete", 401, token, NoUser) EXCEPT !.id = canvasId]
           /\ UNCHANGED tldraw_drawings
       ELSE
           LET user == GuardUser(cookie, header)
               rows == OwnedRows(canvasId, user.userId)
           IN
           /\ tldraw_drawings' =
                  [d \in DOMAIN tldraw_drawings \ rows |-> tldraw_drawings[d]]
           /\ res' = [Response("delete", 200, token, user) EXCEPT
                         !.id = canvasId, !.queries = {OwnerFilter}]

-----------------------------------------------------------------------------
(* Client state while only the server is modelled *)

NoTimer == 0
NoBurst == [n |-> 0, snapshot |-> 0, idle |-> 0, writes |-> 0, payload |-> 0,
            manual |-> FALSE]
NoEvent == [kind |-> "none", started |-> FALSE, written |-> 0, failed |-> FALSE]

ClientIdle ==
    /\ phase = "loading"
    /\ saveStatus = "saved"
    /\ saveTimeoutRef = NoTimer
    /\ timeouts = {}
    /\ editorSnapshot = 0
    /\ inflight = {}
    /\ nextWriteId = 1
    /\ storeSnapshot = 0
    /\ errorMsg = ""
    /\ burst = NoBurst
    /\ ev = NoEvent

NoResponse == Response("none", 0, Undefined, NoUser)

-----------------------------------------------------------------------------
(* SpecAuth: the credential routes from an empty store *)

InitAuth ==
    /\ authUsers = {}
    /\ user_profiles = {}
    /\ tldraw_drawings = << >>
    /\ nextDrawingId = 1
    /\ issued = {}
    /\ clock = 0
    /\ pendingPatch = {}
    /\ res = NoResponse
    /\ signedOut = {}
    /\ ClientIdle

NextAuth ==
    \/ \E email \in Emails, password \in Passwords, f \in BOOLEAN :
           Signup(email, password, f)
    \/ \E email \in Emails, password \in Passwords, f \in BOOLEAN :
           Signin(email, password, f)
    \/ \E c \in Credentials : Me(c[1], c[2])
    \/ \E cookie \in Cookies, header \in Headers : Verify(cookie, header)
    \/ Tick

SpecAuth == InitAuth /\ [][NextAuth]_vars

-----------------------------------------------------------------------------
(* Spec: the canvas routes, two users signed up at time 0 *)

UserA == [id |-> 1, email |-> "a@x", password |-> "123456"]
UserB == [id |-> 2, email |-> "b@x", password |-> "123456"]

Init ==
    /\ authUsers = {UserA, UserB}
    /\ user_profiles = {UserA.id, UserB.id}
    /\ tldraw_drawings = << >>
    /\ nextDrawingId = 1
    /\ issued = {generateToken(UserA, 0), generateToken(UserB, 0)}
    /\ clock \in {0, SevenDays}
    /\ pendingPatch = {}
    /\ res = NoResponse
    /\ signedOut = {}
    /\ ClientIdle

\* What a browser sends once the session cookie is cleared or has been kept:
\* the token in the cookie, in the Authorization header, in both or nowhere.
SessionCookies == {Undefined} \cup issued
SessionHeaders == {NoHeader} \cup {Bearer(t) : t \in issued \cup ForgedTokens}

NextSession ==
    \/ \E cookie \in SessionCookies, header \in SessionHeaders : Signout(cookie, header)
    \/ \E cookie \in SessionCookies, header \in SessionHeaders : Verify(cookie, header)
    \/ \E c \in Credentials : Me(c[1], c[2])
    \/ \E email \in Emails, password \in Passwords, f \in BOOLEAN :
           Signin(email, password, f)
    \/ Tick

SpecSession == Init /\ [][NextSession]_vars

SnapshotFields == {NoSnapshot} \cup {Some(s) : s \in Snapshots}
NameFields == {NoName} \cup {Some(n) : n \in Names}
PatchBodies == [snapshot : SnapshotFields, drawing_name : NameFields]

Next ==
    \/ \E c \in Credentials, id \in DrawingIds : GetCanvas(c[1], c[2], id)
    \/ \E c \in Credentials, n \in NameFields : CreateCanvas(c[1], c[2], n)
    \/ \E c \in Credentials, id \in DrawingIds :
           PatchCheck(c[1], c[2], id, PatchBodies)
    \/ \E p \in pendingPatch : PatchWrite(p)
    \/ \E c \in Credentials, id \in DrawingIds : DeleteCanvas(c[1], c[2], id)
    \/ \E c \in Credentials : Me(c[1], c[2])

Spec == Init /\ [][Next]_vars

-----------------------------------------------------------------------------
(* The canvas page: auto-save and manual save of one open canvas *)

\* Mutant of getSnapshot: a write sends the snapshot that was last stored.
getSnapshotLastSaved == storeSnapshot

\* editorRef.current.getSnapshot()
getSnapshot == editorSnapshot

\* A burst with a manual save in it: only the time since its last edit is kept.
Interrupted(idle) == [NoBurst EXCEPT !.n = 1, !.idle = idle, !.manual = TRUE]

\* The history of the latest burst once a write has been started.
BurstAfterWrite(kind, payload) ==
    IF burst.n = 0 THEN burst
    ELSE IF burst.manual \/ kind # "timer" THEN Interrupted(burst.idle)
    ELSE [burst EXCEPT !.writes = burst.writes + 1, !.payload = payload]

\* What the properties remember once a step of the given kind has run.
History(kind, started) ==
    [kind |-> kind, started |-> started,
     written |-> IF started THEN getSnapshot ELSE ev.written,
     failed |-> IF kind = "rejected" THEN TRUE
                ELSE IF kind \in {"edit", "key", "button"} THEN FALSE
                ELSE ev.failed]

\* saveCanvas, up to its await: nothing without an editor, else status
\* 'saving' and one canvasApi.update call with the snapshot read now.
saveCanvas(kind) ==
    IF phase = "loading" THEN
        /\ ev' = History(kind, FALSE)
        /\ UNCHANGED <<saveStatus, inflight, nextWriteId, burst>>
    ELSE
        /\ nextWriteId <= MaxWrites
        /\ saveStatus' = "saving"
        /\ inflight' = inflight \cup
               {[id |-> nextWriteId, payload |-> getSnapshot,
                 by |-> IF kind = "timer" THEN "timer" ELSE "manual",
                 arrived |-> FALSE]}
        /\ nextWriteId' = nextWriteId + 1
        /\ burst' = BurstAfterWrite(kind, getSnapshot)
        /\ ev' = History(kind, TRUE)

\* <Tldraw onMount={handleMount}>: the editor is kept and the listener subscribed
HandleMount ==
    /\ phase = "loading"
    /\ phase' = "mounted"
    /\ ev' = History("mount", FALSE)
    /\ UNCHANGED <<saveStatus, saveTimeoutRef, timeouts, editorSnapshot, inflight,
                   nextWriteId, storeSnapshot, errorMsg, burst, serverVars>>

\* The history of the latest burst once the document has been edited: an edit
\* less than Debounce after the previous one continues the burst.
BurstAfterEdit ==
    IF burst.n > 0 /\ burst.idle < Debounce
    THEN IF burst.manual THEN Interrupted(0)
         ELSE [burst EXCEPT !.n = burst.n + 1, !.snapshot = editorSnapshot + 1,
                            !.idle = 0]
    ELSE [NoBurst EXCEPT !.n = 1, !.snapshot = editorSnapshot + 1]

\* clearTimeout(id): the scheduled timeouts without that one; an id that is
\* null or has already run clears nothing.
clearTimeout(id) == {t \in timeouts : t.id # id}

\* setTimeout(callback, 3000) called by the edit that is being handled: the
\* timeout it schedules.  Each edit schedules one, so the edit count names it.
setTimeout == [id |-> editorSnapshot + 1, left |-> Debounce]

\* Mutant of StoreListener: a pending timeout is kept instead of being
\* cleared and set again.
StoreListenerKeepsTimer ==
    /\ phase = "mounted"
    /\ editorSnapshot < MaxEdits
    /\ editorSnapshot' = editorSnapshot + 1
    /\ saveStatus' = "unsaved"
    /\ IF \E t \in timeouts : t.id = saveTimeoutRef
       THEN UNCHANGED <<timeouts, saveTimeoutRef>>
       ELSE /\ timeouts' = timeouts \cup {setTimeout}
            /\ saveTimeoutRef' = setTimeout.id
    /\ burst' = BurstAfterEdit
    /\ ev' = History("edit", FALSE)
    /\ UNCHANGED <<phase, inflight, nextWriteId, storeSnapshot, errorMsg, serverVars>>

\* Mutant of StoreListener: the previous timeout is not cleared before the
\* new one is set.
StoreListenerWithoutClear ==
    /\ phase = "mounted"
    /\ editorSnapshot < MaxEdits
    /\ editorSnapshot' = editorSnapshot + 1
    /\ saveStatus' = "unsaved"
    /\ timeouts' = timeouts \cup {setTimeout}
    /\ saveTimeoutRef' = setTimeout.id
    /\ burst' = BurstAfterEdit
    /\ ev' = History("edit", FALSE)
    /\ UNCHANGED <<phase, inflight, nextWriteId, storeSnapshot, errorMsg, serverVars>>

\* Mutant of StoreListener: an edit made while the status is 'saving' is not
\* scheduled for saving.
StoreListenerIdleWhileSaving ==
    /\ phase = "mounted"
    /\ editorSnapshot < MaxEdits
    /\ editorSnapshot' = editorSnapshot + 1
    /\ IF saveStatus = "saving"
       THEN UNCHANGED <<saveStatus, timeouts, saveTimeoutRef>>
       ELSE /\ saveStatus' = "unsaved"
            /\ timeouts' = clearTimeout(saveTimeoutRef) \cup {setTimeout}
            /\ saveTimeoutRef' = setTimeout.id
    /\ burst' = BurstAfterEdit
    /\ ev' = History("edit", FALSE)
    /\ UNCHANGED <<phase, inflight, nextWriteId, storeSnapshot, errorMsg, serverVars>>

\* editor.store.listen callback: a local mutation of the document
StoreListener ==
    /\ phase = "mounted"
    /\ editorSnapshot < MaxEdits
    /\ editorSnapshot' = editorSnapshot + 1
    /\ saveStatus' = "unsaved"
    /\ timeouts' = clearTimeout(saveTimeoutRef) \cup {setTimeout}
    /\ saveTimeoutRef' = setTimeout.id
    /\ burst' = BurstAfterEdit
    /\ ev' = History("edit", FALSE)
    /\ UNCHANGED <<phase, inflight, nextWriteId, storeSnapshot, errorMsg, serverVars>>

\* A scheduled timeout has run out: its callback is the next thing to run.
TimerDue == \E t \in timeouts : t.left = 0

\* One time-unit passes; a timeout that is due runs before more time passes.
ClientTick ==
    /\ ~TimerDue
    /\ timeouts # {} \/ (burst.n > 0 /\ burst.idle < Debounce)
    /\ timeouts' = {[t EXCEPT !.left = t.left - 1] : t \in timeouts}
    /\ burst' = IF burst.n > 0 /\ burst.idle < Debounce
                THEN [burst EXCEPT !.idle = burst.idle + 1]
                ELSE burst
    /\ ev' = History("tick", FALSE)
    /\ UNCHANGED <<phase, saveStatus, saveTimeoutRef, editorSnapshot, inflight,
                   nextWriteId, storeSnapshot, errorMsg, serverVars>>

\* The setTimeout callback: saveCanvas().  saveTimeoutRef.current keeps the id
\* of the timeout that has run.
TimerFire ==
    \E t \in timeouts :
        /\ t.left = 0
        /\ timeouts' = timeouts \ {t}
        /\ saveCanvas("timer")
        /\ UNCHANGED <<phase, saveTimeoutRef, editorSnapshot, storeSnapshot, errorMsg,
                       serverVars>>

\* Mutant of handleManualSave: the pending timeout is left to run.
handleManualSaveKeepsTimer(kind) ==
    /\ saveCanvas(kind)
    /\ UNCHANGED <<phase, timeouts, saveTimeoutRef, editorSnapshot, storeSnapshot,
                   errorMsg, serverVars>>

\* handleManualSave: clear the pending timeout, then saveCanvas()
handleManualSave(kind) ==
    /\ timeouts' = clearTimeout(saveTimeoutRef)
    /\ saveTimeoutRef' = NoTimer
    /\ saveCanvas(kind)
    /\ UNCHANGED <<phase, editorSnapshot, storeSnapshot, errorMsg, serverVars>>

\* The Save Now button, disabled while the status is 'saving'; it is rendered
\* only once the canvas has loaded.
SaveNowButton ==
    /\ phase = "mounted"
    /\ saveStatus # "saving"
    /\ handleManualSave("button")

\* handleKeyDown: Ctrl+S / Cmd+S, listened for from the first render on
handleKeyDown ==
    /\ phase # "unmounted"
    /\ handleManualSave("key")

\* The PATCH of a write reaches the server and is applied to the row.
ServerApply(w) ==
    /\ ~w.arrived
    /\ storeSnapshot' = w.payload
    /\ inflight' = (inflight \ {w}) \cup {[w EXCEPT !.arrived = TRUE]}
    /\ ev' = History("apply", FALSE)
    /\ UNCHANGED <<phase, saveStatus, saveTimeoutRef, timeouts, editorSnapshot,
                   nextWriteId, errorMsg, burst, serverVars>>

\* await canvasApi.update resolves: setSaveStatus('saved'); setting the state
\* of a component that has been unmounted does nothing.
WriteResolved(w) ==
    /\ w.arrived
    /\ inflight' = inflight \ {w}
    /\ saveStatus' = IF phase = "unmounted" THEN saveStatus ELSE "saved"
    /\ ev' = History("resolved", FALSE)
    /\ UNCHANGED <<phase, saveTimeoutRef, timeouts, editorSnapshot, nextWriteId,
                   storeSnapshot, errorMsg, burst, serverVars>>

\* Mutant of WriteRejected: the status is left at 'saving' when a write fails.
WriteRejectedSilently(w) ==
    /\ inflight' = inflight \ {w}
    /\ ev' = History("rejected", FALSE)
    /\ UNCHANGED <<phase, saveStatus, saveTimeoutRef, timeouts, editorSnapshot,
                   nextWriteId, storeSnapshot, errorMsg, burst, serverVars>>

\* await canvasApi.update rejects (the request or its response is lost, or the
\* server answers an error): setError, setSaveStatus('unsaved')
WriteRejected(w) ==
    /\ inflight' = inflight \ {w}
    /\ saveStatus' = IF phase = "unmounted" THEN saveStatus ELSE "unsaved"
    /\ errorMsg' = IF phase = "unmounted" THEN errorMsg ELSE "Failed to save canvas"
    /\ ev' = History("rejected", FALSE)
    /\ UNCHANGED <<phase, saveTimeoutRef, timeouts, editorSnapshot, nextWriteId,
                   storeSnapshot, burst, serverVars>>

\* Mutant of Unmount: the pending timeout is not cleared.
UnmountKeepsTimer ==
    /\ phase = "mounted"
    /\ phase' = "unmounted"
    /\ burst' = NoBurst
    /\ ev' = History("unmount", FALSE)
    /\ UNCHANGED <<saveStatus, saveTimeoutRef, timeouts, editorSnapshot, inflight,
                   nextWriteId, storeSnapshot, errorMsg, serverVars>>

\* Navigating away: the listener is unsubscribed, the key handler removed and
\* the pending timeout cleared.
Unmount ==
    /\ phase = "mounted"
    /\ phase' = "unmounted"
    /\ timeouts' = clearTimeout(saveTimeoutRef)
    /\ burst' = NoBurst
    /\ ev' = History("unmount", FALSE)
    /\ UNCHANGED <<saveStatus, saveTimeoutRef, editorSnapshot, inflight, nextWriteId,
                   storeSnapshot, errorMsg, serverVars>>

InitSync ==
    /\ ClientIdle
    /\ authUsers = {}
    /\ user_profiles = {}
    /\ tldraw_drawings = << >>
    /\ nextDrawingId = 1
    /\ issued = {}
    /\ clock = 0
    /\ pendingPatch = {}
    /\ res = NoResponse
    /\ signedOut = {}

NextSync ==
    \/ HandleMount
    \/ StoreListener
    \/ ClientTick
    \/ TimerFire
    \/ SaveNowButton
    \/ handleKeyDown
    \/ \E w \in inflight : ServerApply(w)
    \/ \E w \in inflight : WriteResolved(w)
    \/ \E w \in inflight : WriteRejected(w)
    \/ Unmount

SpecSync == InitSync /\ [][NextSync]_vars

-----------------------------------------------------------------------------
(* Properties of the canvas routes (Spec) *)

\* This step answered a request.
Answered == res' # res

Owner(d) == tldraw_drawings[d].user_id

\* The request just answered passed the guard and addressed a canvas that
\* exists and belongs to somebody else.
ByNonOwner(r) ==
    /\ r.status # 401
    /\ r.id \in DOMAIN tldraw_drawings
    /\ Owner(r.id) # r.user.userId

\* C1 as stated: get, update and delete of somebody else's canvas all answer
\* NotFound (404).
C1_NonOwnerAlwaysNotFound ==
    [][(Answered /\ res'.op \in {"get", "patch", "delete"} /\ ByNonOwner(res'))
          => res'.status = 404]_vars

\* C1 amended: get and update of somebody else's canvas answer NotFound (404);
\* delete of somebody else's canvas answers success (200) and removes nothing.
C1_NonOwnerGetsNothing ==
    [][(Answered /\ res'.op \in {"get", "patch", "delete"} /\ ByNonOwner(res'))
          => /\ res'.op \in {"get", "patch"} => res'.status = 404
             /\ res'.op = "delete" => res'.status = 200
             /\ res'.body = {}
             /\ tldraw_drawings' = tldraw_drawings]_vars

C1_Witness ==
    /\ res.op = "delete"
    /\ res.status = 200
    /\ res.id \in DOMAIN tldraw_drawings
    /\ Owner(res.id) # res.user.userId

\* C2: a canvas row changes or disappears only in the step that answers, with
\* success, a patch or delete of that canvas whose verified token names the
\* canvas's owner; user_id never changes; every row in a response belongs to
\* the user of the verified token.
C2_OnlyOwnerTouches ==
    [][/\ \A d \in DOMAIN tldraw_drawings :
              (d \notin DOMAIN tldraw_drawings' \/ tldraw_drawings'[d] # tldraw_drawings[d])
              => /\ res'.op \in {"patch", "delete"}
                 /\ res'.status = 200
                 /\ res'.id = d
                 /\ res'.token.sig = "valid"
                 /\ res'.token.userId = Owner(d)
                 /\ d \in DOMAIN tldraw_drawings' => tldraw_drawings'[d].user_id = Owner(d)
       /\ \A r \in res'.body :
              /\ res'.token.sig = "valid"
              /\ r.user_id = res'.token.userId]_vars

C2_Witness ==
    /\ res.op = "me"
    /\ res.status = 200
    /\ res.body # {}
    /\ \E d \in DOMAIN tldraw_drawings :
           /\ Owner(d) # res.user.userId
           /\ tldraw_drawings[d].snapshot = "S1"

\* C6: when the step after a successful update(owner, doc, {snapshot: S}) is
\* get(owner, doc), the get succeeds and the row it returns has snapshot S.
C6_RoundTrip ==
    [][(/\ res.op = "patch" /\ res.status = 200 /\ res.snapshot.given
        /\ Answered
        /\ res'.op = "get" /\ res'.id = res.id /\ res'.user = res.user
        /\ res'.status # 401)
          => /\ res'.status = 200
             /\ res'.body # {}
             /\ \A r \in res'.body : r.id = res.id /\ r.snapshot = res.snapshot.val]_vars

C6_Witness ==
    /\ res.op = "get"
    /\ res.status = 200
    /\ \E r \in res.body : r.snapshot = "S1"

\* A token the guard must accept at time `now`: signed with the server's
\* secret and not yet expired.
Acceptable(token, now) == token.sig = "valid" /\ now < token.exp

Claims(token) == [userId |-> token.userId, email |-> token.email]

GuardedOps == {"get", "create", "patch", "delete", "me"}

\* C7: a canvas request or a current-user read without an acceptable token is
\* answered 401, returns no row and changes no table; every other one is not
\* answered 401 and runs with exactly the claims of its token as req.user; so
\* does every suspended PATCH.
C7_GuardGates ==
    [][/\ (Answered /\ res'.op \in GuardedOps)
          => IF Acceptable(res'.token, clock)
             THEN /\ res'.status # 401
                  /\ res'.user = Claims(res'.token)
             ELSE /\ res'.status = 401
                  /\ res'.user = NoUser
                  /\ res'.body = {}
                  /\ UNCHANGED <<tldraw_drawings, nextDrawingId, user_profiles,
                                 authUsers, pendingPatch>>
       /\ \A p \in pendingPatch' :
              /\ Acceptable(p.req.token, clock)
              /\ p.req.user = Claims(p.req.token)]_vars

C7_Witness ==
    /\ res.op = "patch"
    /\ res.status = 401
    /\ res.token.sig = "forged"
    /\ res.id \in DOMAIN tldraw_drawings
    /\ Owner(res.id) = res.token.userId

-----------------------------------------------------------------------------
(* Properties of the credential routes (SpecAuth) *)

\* A token is carried: the value is neither missing nor the empty string.
Carried(v) == v.sig \notin {"undefined", "empty"}

\* C8: a request to the guard that carries a token in the cookie and a token
\* in the Authorization header is accepted exactly when the cookie's token is
\* acceptable, and then runs with the claims of the cookie's token.
C8_CookieTakesPrecedence ==
    [][(/\ Answered /\ res'.op = "verify"
        /\ Carried(res'.cookie)
        /\ res'.header.present /\ Len(res'.header.words) = 2
        /\ Carried(res'.header.words[2]))
          => IF Acceptable(res'.cookie, clock)
             THEN res'.status = 200 /\ res'.user = Claims(res'.cookie)
             ELSE res'.status = 401 /\ res'.user = NoUser]_vars

C8_Witness ==
    /\ res.op = "verify"
    /\ res.status = 401
    /\ res.cookie.sig = "forged"
    /\ res.header.present /\ Len(res.header.words) = 2
    /\ Acceptable(res.header.words[2], clock)
    /\ res.header.words[2].userId # res.cookie.userId

\* C9: a token issued at time t carries the claims of the identity just
\* created or authenticated; the guard accepts it, with those claims, at every
\* time from t up to but not including t + 7 days, and rejects it from
\* t + 7 days on.
C9_TokenLifetime ==
    [][/\ (Answered /\ res'.issuedToken.sig # "undefined")
          => /\ res'.issuedToken \in issued'
             /\ res'.issuedToken.sig = "valid"
             /\ res'.issuedToken.iat = clock
             /\ Claims(res'.issuedToken) = res'.user
             /\ \E u \in authUsers' :
                    u.id = res'.user.userId /\ u.email = res'.user.email
                    /\ u.email = res'.email
       /\ (Answered /\ res'.op \in {"verify", "me"} /\ res'.token \in issued)
          => IF clock < res'.token.iat + SevenDays
             THEN res'.status # 401 /\ res'.user = Claims(res'.token)
             ELSE res'.status = 401]_vars

C9_Witness ==
    /\ res.op = "verify"
    /\ res.status = 401
    /\ res.token \in issued
    /\ clock = res.token.iat + SevenDays

\* C10: a sign-up whose password is shorter than 6 characters is answered 400,
\* creates no identity and no profile and issues no token; a sign-up with an
\* email, a password of 6 characters or more and no identity yet under that
\* email succeeds.
C10_ShortPasswordRejected ==
    [][(Answered /\ res'.op = "signup")
          => /\ Len(res'.password) < 6
                => /\ res'.status = 400
                   /\ res'.issuedToken = Undefined
                   /\ UNCHANGED <<authUsers, user_profiles, issued>>
             /\ (/\ Len(res'.password) >= 6
                 /\ res'.email # ""
                 /\ \A u \in authUsers : u.email # res'.email)
                => /\ res'.status = 200
                   /\ res'.issuedToken \in issued'
                   /\ \E u \in authUsers' \ authUsers :
                          u.email = res'.email /\ u.password = res'.password]_vars

C10_Witness ==
    /\ res.op = "signup"
    /\ res.status = 400
    /\ Len(res.password) = 5
    /\ res.email # ""
    /\ \A u \in authUsers : u.email # res.email

\* C11 as stated: every current-user read that passes the guard leaves a
\* profile row for the token's identity in the table and is answered with
\* success, also when the row was missing before the read.
C11_MeRestoresProfile ==
    [][(Answered /\ res'.op = "me" /\ res'.status # 401)
          => /\ res'.user.userId \in user_profiles'
             /\ res'.status = 200]_vars

\* The request just answered named an identity and its password.
RightPassword(r) ==
    \E u \in authUsers : u.email = r.email /\ u.password = r.password

\* C12 as stated: a sign-up whose profile insert fails still creates the
\* identity, issues a token and answers success; a sign-in with the right
\* password answers success whether or not the profile row exists; and a
\* sign-in or a current-user read of an identity, in which no profile insert
\* fails, leaves the identity's profile row in the table.
C12_MissingProfileRestored ==
    [][/\ (Answered /\ res'.op = "signup" /\ res'.profileFailed)
          => /\ res'.status = 200
             /\ res'.issuedToken \in issued'
             /\ \E u \in authUsers' \ authUsers : u.id = res'.user.userId
             /\ user_profiles' = user_profiles
       /\ (Answered /\ res'.op = "signin" /\ RightPassword(res'))
          => /\ res'.status = 200
             /\ res'.issuedToken \in issued'
       /\ (Answered /\ res'.op \in {"signin", "me"} /\ res'.status \notin {400, 401}
           /\ ~res'.profileFailed)
          => res'.user.userId \in user_profiles']_vars

-----------------------------------------------------------------------------
(* Properties of the canvas page (SpecSync) *)

\* C3 as stated: at most one canvasApi.update call is in flight at any time.
C3_AtMostOneWriteInFlight == Cardinality(inflight) <= 1

\* A manual save starts a write in this step.
ManualSaveStartsWrite ==
    /\ nextWriteId' = nextWriteId + 1
    /\ ev'.kind \in {"key", "button"}

\* C4 as stated: the write of a manual save that arrives while a debounced
\* write is in flight (status Saving) does not start before that write has
\* completed.
C4_ManualSaveWaitsForInFlightWrite ==
    [][(saveStatus = "saving" /\ \E w \in inflight : w.by = "timer")
          => ~ManualSaveStartsWrite]_vars

\* C5: while the page is mounted and no manual save was made since the burst
\* began, a burst of N >= 1 edits, each less than the debounce interval after
\* the previous one, has started no write as long as less than the interval
\* has passed since its last edit (or the timeout is due but has not yet run),
\* and exactly one write, carrying the snapshot after the Nth edit, from then on.
C5_DebounceCoalesces ==
    (phase = "mounted" /\ burst.n >= 1 /\ ~burst.manual)
        => IF burst.idle < Debounce \/ TimerDue
           THEN burst.writes = 0 /\ timeouts # {}
           ELSE burst.writes = 1 /\ burst.payload = burst.snapshot

C5_Witness ==
    /\ phase = "mounted"
    /\ burst.n = 3
    /\ ~burst.manual
    /\ burst.idle = Debounce
    /\ burst.writes = 1
    /\ burst.payload = 3

\* A canvasApi.update call is started in this step.
StartsWrite == nextWriteId' = nextWriteId + 1

\* The status changes of a write while the page is shown: 'saved' until the
\* editor has mounted; 'saving' in the step that starts a write, whose call
\* carries the snapshot of that moment; 'saved' when a call succeeds and
\* 'unsaved' with an error message when a call fails.
WriteTransitions ==
    /\ StartsWrite
          => /\ saveStatus' = "saving"
             /\ ev'.kind \in {"timer", "key", "button"}
             /\ \E w \in inflight' \ inflight :
                    w.payload = editorSnapshot /\ ~w.arrived
    /\ (ev'.kind = "resolved" /\ phase # "unmounted") => saveStatus' = "saved"
    /\ (ev'.kind = "rejected" /\ phase # "unmounted")
          => saveStatus' = "unsaved" /\ errorMsg' # ""

\* C13 as stated: the status is Saved on load, follows Saving, then Saved or
\* Unsaved with an error, around every write, and once a write has failed no
\* write is started before the next edit or manual save.
C13_NoWriteAfterFailureUntilNewEdit ==
    /\ [](phase = "loading" => saveStatus = "saved")
    /\ [][/\ WriteTransitions
          /\ (ev.failed /\ StartsWrite) => ev'.kind \in {"key", "button"}]_vars

\* C13 amended: the status is Saved on load and follows Saving, then Saved or
\* Unsaved with an error, around every write; a failing write starts no write
\* and schedules no timeout; a write is started only by a manual save or by
\* the timeout of an edit, and a timeout is scheduled only by an edit (which
\* may have been made while the failed write was in flight).
C13_FailureSchedulesNothing ==
    /\ [](phase = "loading" => saveStatus = "saved")
    /\ [][/\ WriteTransitions
          /\ ev'.kind = "rejected" => (~StartsWrite /\ timeouts' = timeouts)
          /\ ~({t.id : t \in timeouts'} \subseteq {t.id : t \in timeouts})
                => ev'.kind = "edit"
          /\ (StartsWrite /\ ev'.kind = "timer")
                => \E t \in timeouts \ timeouts' : t.left = 0]_vars

\* A write fails while the timeout of an earlier edit is pending, and that
\* timeout then starts a write.
C13_Witness ==
    /\ phase = "mounted"
    /\ ev.kind = "timer"
    /\ ev.started
    /\ ev.failed
    /\ saveStatus = "saving"
    /\ errorMsg # ""

\* C14: a manual save made while the page is shown, whatever the status,
\* leaves no timeout scheduled and starts, in the same step, a write of the
\* snapshot of that moment with status Saving; that write ends like any
\* other, with Saved on success and Unsaved with an error on failure.
C14_ManualSaveCancelsAndWrites ==
    [][/\ (ev'.kind \in {"key", "button"} /\ phase = "mounted")
          => /\ timeouts' = {}
             /\ saveTimeoutRef' = NoTimer
             /\ StartsWrite
             /\ saveStatus' = "saving"
             /\ \E w \in inflight' \ inflight :
                    w.payload = editorSnapshot /\ w.by = "manual"
       /\ WriteTransitions]_vars

\* Ctrl+S while a write is in flight and the timeout of an edit made less
\* than the debounce interval ago was pending.
C14_Witness ==
    /\ phase = "mounted"
    /\ ev.kind = "key"
    /\ ev.started
    /\ Cardinality(inflight) = 2
    /\ burst.n >= 1
    /\ burst.idle < Debounce
    /\ timeouts = {}

\* C15: once the page is unmounted no timeout is scheduled, no write is
\* started and the status does not change; unmounting removes no write that
\* is in flight, and such a write can still be applied by the server.
C15_TeardownStopsSaving ==
    /\ [](phase = "unmounted"
            => /\ timeouts = {}
               /\ \A w \in inflight : ~w.arrived => ENABLED ServerApply(w))
    /\ [][/\ phase = "unmounted"
             => /\ ~StartsWrite
                /\ saveStatus' = saveStatus
                /\ phase' = "unmounted"
          /\ ev'.kind = "unmount"
             => /\ inflight' = inflight
                /\ saveStatus' = saveStatus]_vars

\* The write that was in flight when the page was unmounted has reached the
\* store, and the status is still the 'saving' of the moment of teardown.
C15_Witness ==
    /\ phase = "unmounted"
    /\ ev.kind = "apply"
    /\ storeSnapshot = ev.written
    /\ storeSnapshot > 0
    /\ saveStatus = "saving"

\* C16: at most one timeout is scheduled at any time; an edit, whatever the
\* status, leaves exactly one timeout scheduled, a new one due after the
\* debounce interval, and an edit made in status Saved leaves status Unsaved.
C16_EditRestartsTimer ==
    /\ [](Cardinality(timeouts) <= 1)
    /\ [][ev'.kind = "edit"
             => /\ timeouts' = {[id |-> saveTimeoutRef', left |-> Debounce]}
                /\ timeouts' \cap timeouts = {}
                /\ saveStatus = "saved" => saveStatus' = "unsaved"]_vars

\* An edit made while a write is in flight and the timeout of the previous
\* edit was still pending.
C16_Witness ==
    /\ ev.kind = "edit"
    /\ inflight # {}
    /\ burst.n >= 2
    /\ timeouts = {[id |-> saveTimeoutRef, left |-> Debounce]}

\* C17: while the page is shown an edit is accepted whether or not a write is
\* in flight; every write carries the snapshot of the moment it starts; and
\* as long as the latest write started does not carry the current snapshot, a
\* timeout is scheduled whose write will.
C17_WritesCarryLiveSnapshot ==
    /\ []((phase = "mounted" /\ editorSnapshot < MaxEdits) => ENABLED StoreListener)
    /\ []((phase = "mounted" /\ editorSnapshot # ev.written) => timeouts # {})
    /\ [][/\ StartsWrite
             => /\ ev'.written = editorSnapshot
                /\ \E w \in inflight' \ inflight : w.payload = editorSnapshot
          /\ ev'.kind = "edit" => editorSnapshot' = editorSnapshot + 1]_vars

\* An edit made while a write was in flight is carried by a later write
\* started by the timeout.
C17_Witness ==
    \E w1, w2 \in inflight :
        /\ w1.id < w2.id
        /\ w1.payload < w2.payload
        /\ w2.payload = editorSnapshot
        /\ w2.by = "timer"
        /\ ~w1.arrived

-----------------------------------------------------------------------------
(* More properties of the canvas routes (Spec) *)

\* The table without the row of canvas d.
Without(d) == [e \in DOMAIN tldraw_drawings \ {d} |-> tldraw_drawings[e]]

\* C18: a delete that passes the guard is answered with success; when the id
\* names no row, or a row of another user, every row stays as it is; when it
\* names a row of the requester only that row goes.  Right after a successful
\* delete the id names no row of the requester, so the same delete made again
\* is the first case: success, nothing changed.
C18_DeleteIsIdempotent ==
    /\ []((res.op = "delete" /\ res.status = 200)
            => OwnedRows(res.id, res.user.userId) = {})
    /\ [][(Answered /\ res'.op = "delete" /\ res'.status # 401)
             => /\ res'.status = 200
                /\ IF OwnedRows(res'.id, res'.user.userId) = {}
                   THEN tldraw_drawings' = tldraw_drawings
                   ELSE tldraw_drawings' = Without(res'.id)]_vars

\* A user has deleted an id that names a canvas of the other user.
C18_Witness ==
    /\ res.op = "delete"
    /\ res.status = 200
    /\ res.id \in DOMAIN tldraw_drawings
    /\ Owner(res.id) # res.user.userId
    /\ Cardinality(DOMAIN tldraw_drawings) = 1
    /\ nextDrawingId = 3

\* C19: an update that passes the guard and names no row of the requester is
\* answered NotFound whether or not its body holds a field; one that names a
\* row of the requester and holds neither field is answered ValidationError;
\* both leave every row as it is and send no update query.  Only an update
\* that names a row of the requester and holds a field goes on to the query.
C19_UpdateChecksOwnershipFirst ==
    [][/\ (Answered /\ res'.op = "patch" /\ res'.status # 401
           /\ pendingPatch' = pendingPatch)
          => /\ IF OwnedRows(res'.id, res'.user.userId) = {}
                THEN res'.status = 404
                ELSE res'.status = 400 /\ res'.empty
             /\ tldraw_drawings' = tldraw_drawings
       /\ \A p \in pendingPatch' \ pendingPatch :
              /\ OwnedRows(p.req.id, p.req.user.userId) # {}
              /\ ~NoFields(p.req)
              /\ tldraw_drawings' = tldraw_drawings]_vars

\* An update without any field of a canvas of another user: NotFound.
C19_Witness ==
    /\ res.op = "patch"
    /\ res.status = 404
    /\ res.empty
    /\ res.id \in DOMAIN tldraw_drawings
    /\ Owner(res.id) # res.user.userId

\* C20: the update query of a PATCH that is answered with success leaves the
\* set of rows, every other row, and the id and user_id of its row as they
\* were; a column whose field was not supplied keeps its value and a column
\* whose field was supplied takes it (the name trimmed).  A PATCH whose query
\* fails changes nothing.
C20_UpdateWritesOnlySuppliedFields ==
    [][\A p \in pendingPatch \ pendingPatch' :
           LET d == p.req.id IN
           IF res'.status = 200 THEN
               /\ DOMAIN tldraw_drawings' = DOMAIN tldraw_drawings
               /\ d \in DOMAIN tldraw_drawings
               /\ \A e \in DOMAIN tldraw_drawings \ {d} :
                      tldraw_drawings'[e] = tldraw_drawings[e]
               /\ tldraw_drawings'[d].user_id = tldraw_drawings[d].user_id
               /\ tldraw_drawings'[d].snapshot =
                      IF p.req.snapshot.given THEN p.req.snapshot.val
                      ELSE tldraw_drawings[d].snapshot
               /\ tldraw_drawings'[d].drawing_name =
                      IF p.req.drawing_name.given THEN p.req.drawing_name.val
                      ELSE tldraw_drawings[d].drawing_name
               /\ res'.body = {RowAfter(d, tldraw_drawings'[d])}
           ELSE
               tldraw_drawings' = tldraw_drawings]_vars

\* A snapshot-only update of one of two canvases has been answered.
C20_Witness ==
    /\ res.op = "patch"
    /\ res.status = 200
    /\ res.snapshot = Some("S1")
    /\ ~res.drawing_name.given
    /\ Cardinality(DOMAIN tldraw_drawings) = 2
    /\ \E r \in res.body : r.drawing_name = <<"A">> /\ r.snapshot = "S1"

\* The request just answered was a create whose name is missing, empty or
\* made of spaces only.
BlankName(r) == ~r.drawing_name.given \/ TrimLeft(r.drawing_name.val) = <<>>

\* The rows the step has added to the table.
Added == {d \in DOMAIN tldraw_drawings' : d \notin DOMAIN tldraw_drawings}

\* The step has left every row that was in the table as it was.
RowsKept ==
    \A d \in DOMAIN tldraw_drawings :
        d \in DOMAIN tldraw_drawings' /\ tldraw_drawings'[d] = tldraw_drawings[d]

\* C21 as stated: a create with a blank name is answered ValidationError and
\* adds no row; any other create adds exactly one row, of the verified
\* requester, with the empty snapshot and with the name as it was supplied,
\* and leaves the other rows as they were.
C21_CreateStoresSuppliedName ==
    [][(Answered /\ res'.op = "create" /\ res'.status # 401)
          => IF BlankName(res')
             THEN res'.status = 400 /\ tldraw_drawings' = tldraw_drawings
             ELSE /\ res'.status = 201
                  /\ RowsKept
                  /\ \E d \in Added :
                         /\ Added = {d}
                         /\ tldraw_drawings'[d].user_id = res'.token.userId
                         /\ tldraw_drawings'[d].snapshot = "{}"
                         /\ tldraw_drawings'[d].drawing_name = res'.drawing_name.val]_vars

\* C21 amended: as above, but the name of the new row is the supplied name
\* without its leading and trailing spaces.
C21_CreateStoresTrimmedName ==
    [][(Answered /\ res'.op = "create" /\ res'.status # 401)
          => IF BlankName(res')
             THEN res'.status = 400 /\ tldraw_drawings' = tldraw_drawings
             ELSE /\ res'.status = 201
                  /\ RowsKept
                  /\ \E d \in Added :
                         /\ Added = {d}
                         /\ tldraw_drawings'[d].user_id = res'.token.userId
                         /\ tldraw_drawings'[d].snapshot = "{}"
                         /\ tldraw_drawings'[d].drawing_name =
                                TrimRight(TrimLeft(res'.drawing_name.val))
                         /\ res'.body = {RowAfter(d, tldraw_drawings'[d])}]_vars

\* A second canvas has been created from a name with a leading space.
C21_Witness ==
    /\ res.op = "create"
    /\ res.status = 201
    /\ res.drawing_name = Some(<<" ", "A">>)
    /\ Cardinality(DOMAIN tldraw_drawings) = 2
    /\ tldraw_drawings[res.id].drawing_name = <<"A">>
    /\ tldraw_drawings[res.id].user_id = res.token.userId

\* The ids of the canvases that were created and are no longer in the table.
Deleted == (1..(nextDrawingId - 1)) \ DOMAIN tldraw_drawings

\* C22: the delete of a canvas by its owner removes the row; a row that has
\* gone never comes back; a get of an id without a row is answered NotFound
\* whoever asks.  While the row is there a get by its owner returns it as it
\* is stored, and its snapshot changes only in the write of a successful
\* update, to the snapshot that update supplied.
C22_DeletedStaysNotFound ==
    [][/\ \A d \in Deleted : d \notin DOMAIN tldraw_drawings'
       /\ (Answered /\ res'.op = "delete" /\ res'.status = 200
           /\ OwnedRows(res'.id, res'.user.userId) # {})
          => res'.id \notin DOMAIN tldraw_drawings'
       /\ (Answered /\ res'.op = "get" /\ res'.status # 401)
          => IF res'.id \notin DOMAIN tldraw_drawings
             THEN res'.status = 404 /\ res'.body = {}
             ELSE Owner(res'.id) = res'.user.userId
                  => res'.status = 200 /\ res'.body = {Row(res'.id)}
       /\ \A d \in DOMAIN tldraw_drawings \cap DOMAIN tldraw_drawings' :
              tldraw_drawings'[d].snapshot # tldraw_drawings[d].snapshot
              => /\ res'.op = "patch" /\ res'.status = 200 /\ res'.id = d
                 /\ res'.snapshot.given
                 /\ tldraw_drawings'[d].snapshot = res'.snapshot.val]_vars

\* A get of a canvas that was created and then deleted: NotFound.
C22_Witness ==
    /\ res.op = "get"
    /\ res.status = 404
    /\ res.id \in Deleted
    /\ res.token.sig = "valid"

-----------------------------------------------------------------------------
(* Properties of sign-out (SpecSession) *)

\* C23: the guard lets a request through exactly when its token is signed
\* with the server's secret and has not expired at the time of the request,
\* whatever sign-outs there have been, and then runs it with the token's
\* claims; a sign-out changes no table and no token.
C23_TokensAreStateless ==
    [][/\ (Answered /\ res'.op \in {"verify", "me"})
          => /\ res'.status # 401 <=> Acceptable(res'.token, clock)
             /\ res'.status # 401 => res'.user = Claims(res'.token)
       /\ signedOut' # signedOut
          => /\ res'.op = "signout"
             /\ res'.status = 200
             /\ UNCHANGED <<authUsers, user_profiles, tldraw_drawings, issued,
                            pendingPatch, clock>>]_vars

\* After a sign-out that carried it, a token sent in the Authorization header
\* alone is accepted.
C23_Witness ==
    /\ res.op = "verify"
    /\ res.status = 200
    /\ res.token \in signedOut
    /\ res.cookie = Undefined
    /\ res.header = Bearer(res.token)

-----------------------------------------------------------------------------
(* Properties of the canvas routes (Spec), continued *)

\* C24 as stated: every query that a get, an update or a delete has sent to
\* the table of canvases filters on user_id.
C24_EveryQueryOwnerScoped ==
    res.op \in {"get", "patch", "delete"}
        => \A q \in res.queries : "user_id" \in q

-----------------------------------------------------------------------------
(* Properties of the canvas page (SpecSync), continued *)

\* A step in which the PATCH of one write in flight is rejected.
RejectedStep ==
    /\ ev'.kind = "rejected"
    /\ \E w \in inflight : inflight' = inflight \ {w}

\* A step in which the Save Now button or Ctrl+S runs on the mounted page.
ManualSaveStep ==
    /\ phase = "mounted"
    /\ ev' # ev
    /\ ev'.kind \in {"key", "button"}

\* C25: a rejected write leaves the editor's snapshot as it was and, on the
\* page that is still open, sets the status to 'unsaved'; with the status
\* 'unsaved' the Save Now button can be used; and every manual save on the
\* mounted page starts exactly one write, whose payload is the whole of the
\* editor's snapshot at that moment, whatever failed before.
C25_FailedWriteKeepsChange ==
    /\ [][/\ RejectedStep
             => /\ editorSnapshot' = editorSnapshot
                /\ phase = "mounted" => saveStatus' = "unsaved"
          /\ ManualSaveStep
             => /\ ev'.started
                /\ \E w \in inflight' :
                       /\ w \notin inflight
                       /\ inflight' = inflight \cup {w}
                       /\ w.payload = editorSnapshot
                       /\ ~w.arrived
                /\ editorSnapshot' = editorSnapshot]_vars
    /\ [](phase = "mounted" /\ saveStatus = "unsaved" /\ nextWriteId <= MaxWrites
             => ENABLED SaveNowButton)

\* A write has failed, and the Save Now button has just started a write that
\* carries edits the store does not have.
C25_Witness ==
    /\ errorMsg # ""
    /\ ev.kind = "button" /\ ev.started
    /\ storeSnapshot < editorSnapshot
    /\ \E w \in inflight : ~w.arrived /\ w.payload = editorSnapshot

-----------------------------------------------------------------------------
(* Properties of the credential routes (SpecAuth), continued *)

\* C26: a sign-in with an email and a password that match no identity is
\* answered 401; a sign-up that does not succeed is answered 400; a sign-up or
\* sign-in that does not succeed returns no token, sets no cookie and issues
\* nothing; and a token is issued only by a successful sign-up or sign-in,
\* which returns it and sets it as the cookie, with the id and email of the
\* identity that the sign-up created or whose password the sign-in matched.
C26_TokenOnlyOnSuccess ==
    [][/\ (/\ Answered /\ res'.op = "signin"
           /\ res'.email # "" /\ res'.password # ""
           /\ ~RightPassword(res'))
          => res'.status = 401
       /\ (Answered /\ res'.op = "signup" /\ res'.status # 200)
          => res'.status = 400
       /\ (Answered /\ res'.op \in {"signup", "signin"} /\ res'.status # 200)
          => /\ res'.issuedToken = Undefined
             /\ res'.setCookie = Undefined
             /\ issued' = issued
       /\ issued' # issued
          => /\ res'.op \in {"signup", "signin"}
             /\ res'.status = 200
             /\ issued' = issued \cup {res'.issuedToken}
             /\ res'.setCookie = res'.issuedToken
             /\ \E u \in authUsers' :
                    /\ u.email = res'.email /\ u.password = res'.password
                    /\ res'.issuedToken.userId = u.id
                    /\ res'.issuedToken.email = u.email
                    /\ res'.op = "signup" <=> u \notin authUsers]_vars

\* A sign-in with the wrong password for an existing identity was answered 401
\* while a token of an earlier success exists.
C26_Witness ==
    /\ res.op = "signin" /\ res.status = 401
    /\ \E u \in authUsers : u.email = res.email /\ u.password # res.password
    /\ issued # {}
    /\ res.issuedToken = Undefined

-----------------------------------------------------------------------------
(* Properties of the canvas routes (Spec), continued *)

\* C27 as stated: the update query of a PATCH that passed the check is
\* answered with the updated row (200), NotFound (404) or ValidationError
\* (400); when the row has been deleted since the check, it is answered
\* NotFound and no row changes.
C27_UpdateOutcomes ==
    [][\A p \in pendingPatch \ pendingPatch' :
           /\ res'.op = "patch"
           /\ res'.status \in {200, 404, 400}
           /\ p.req.id \in Deleted
              => /\ res'.status = 404
                 /\ tldraw_drawings' = tldraw_drawings]_vars

-----------------------------------------------------------------------------
(* Properties of the canvas page (SpecSync), continued *)

\* C28 as stated: on the open page, whenever the status is 'saved' the row's
\* snapshot is the editor's snapshot, with every edit made so far.
C28_SavedMeansStored ==
    (phase = "mounted" /\ saveStatus = "saved")
        => storeSnapshot = editorSnapshot

\* C29 as stated, for sessions in which no write has failed: on the open page,
\* whenever the status is 'saved', no timeout is pending and no write is in
\* flight, the row's snapshot is the editor's snapshot.
C29_QuiescentMeansStored ==
    (/\ phase = "mounted" /\ saveStatus = "saved"
     /\ timeouts = {} /\ saveTimeoutRef = NoTimer
     /\ inflight = {}
     /\ errorMsg = "")
        => storeSnapshot = editorSnapshot

-----------------------------------------------------------------------------
(* Properties of the canvas routes (Spec), continued *)

\* C30 as stated: in every state the creates and updates can reach, no row of
\* the table has a name that is empty or made of spaces only.
C30_NoBlankStoredName ==
    \A d \in DOMAIN tldraw_drawings :
        TrimLeft(tldraw_drawings[d].drawing_name) # <<>>

====
